---- MODULE Spec2Model ----
(***************************************************************************)
(* Model of the goemail package: construction (New), the email builder's   *)
(* setters, validation, the message builder (getMessage) and the retry     *)
(* engine (exponentialBackOffRetry) that drives sendEmail.                 *)
(*                                                                         *)
(* The sources hold two revisions of the package.  rev = "new" is the      *)
(* documented revision (src/example/main.go:266-693, src/unnamed/part_000) *)
(* and rev = "old" is the earlier one (src/example/main.go:91-264,         *)
(* src/gomail.go, src/helper.go).  They differ in the retry loop's index,  *)
(* in SetContent, in the body that getMessage sets and in the context     *)
(* gomailSender.Send hands to the retry engine.                            *)
(*                                                                         *)
(* Spec is the whole package.  SpecContent is New and SetContent with each *)
(* SetContent call recorded; SpecLong runs the retry loop for LongRetry    *)
(* iterations, where the int64 backoff wraps; FairEngine is every Send on  *)
(* one email under the fairness that makes the loop progress.              *)
(*                                                                         *)
(* A Go string is a sequence of runs, a run being n copies of one          *)
(* character; a character is a TLA+ string, one letter for an ASCII        *)
(* character and a "U+XXXX" name for a character outside ASCII, so that    *)
(* Go's len (a count of UTF-8 bytes) and the number of characters are      *)
(* different things.                                                       *)
(***************************************************************************)
EXTENDS Integers, Sequences, FiniteSets, TLC

\* ------------------------------------------------------------------ bounds
\* Largest retry count a caller passes to Send.
MaxRetry == 3
\* Number of plain setter calls (all setters but SetContent) made on the email.
MaxSetCalls == 1
\* Number of consecutive validate calls compared with one another.
MaxValidateCalls == 3
\* The retry count of the long runs of the retry loop.
LongRetry == 40
\* Number of goroutines that call New concurrently.
NumCallers == 2

\* --------------------------------------------------------------- constants
\* The length limit of email.validate.
MaxFieldLen == 500
\* delay := 2 * time.Second, in seconds.
delay == 2

ContentHTML == "html"
ContentText == "text"

ErrNil == "nil"
ErrContentMissing == "content missing"
ErrSubjectTooLong == "subject too long"
ErrTagsTooLong == "tags too long"
ErrSenderTooLong == "sender email too long"
ErrSenderNameTooLong == "sender name email too long"
ErrReturnEmailTooLong == "returnEmail too long"
ErrNoContent == "not content provided"
ErrTemplate == "template error"
ErrTimeout == "send email timeout"
ErrExhausted == "retries are exhausted"
\* a run-time panic: the call never returns
Panic == "panic"
\* no call has returned yet
Pending == "pending"

FieldTooLongErrors ==
  {ErrSubjectTooLong, ErrTagsTooLong, ErrSenderTooLong, ErrSenderNameTooLong,
   ErrReturnEmailTooLong}

ValidationErrors == {ErrContentMissing} \cup FieldTooLongErrors

\* ----------------------------------------------------------------- strings
\* The string of n copies of the character ch.
Str(ch, n) == IF n = 0 THEN << >> ELSE <<[ch |-> ch, n |-> n]>>

\* Bytes of the UTF-8 encoding of one character (the modelled characters
\* outside ASCII lie in U+0080..U+07FF: two bytes).
Utf8Width(ch) == IF Len(ch) = 1 THEN 1 ELSE 2

\* Go's len(s): the number of bytes of s.
RECURSIVE GoLen(_)
GoLen(s) ==
  IF s = << >> THEN 0
  ELSE Head(s).n * Utf8Width(Head(s).ch) + GoLen(Tail(s))

\* The number of characters of s.
RECURSIVE CharCount(_)
CharCount(s) ==
  IF s = << >> THEN 0 ELSE Head(s).n + CharCount(Tail(s))

EmptyStr == << >>
Hello == Str("h", 1) \o Str("i", 1)
Addr1 == Str("a", 1) \o Str("@", 1) \o Str("x", 1)
Addr2 == Str("b", 1) \o Str("@", 1) \o Str("x", 1)
Ascii500 == Str("s", MaxFieldLen)
Ascii501 == Str("s", MaxFieldLen + 1)
Wide500 == Str("U+00E9", MaxFieldLen)

\* ------------------------------------------------------------------ inputs
TransportErrors == {"auth failure", "connection refused"}

ValidConn == [SmtpHost |-> Str("h", 1), SmtpPort |-> 587,
              SmtpUser |-> Str("u", 1), SmtpPassword |-> Str("p", 1)]

\* ConnectionDetails{}: every field empty, port 0.
ZeroConn == [SmtpHost |-> EmptyStr, SmtpPort |-> 0, SmtpUser |-> EmptyStr,
             SmtpPassword |-> EmptyStr]

ConnInputs == {ValidConn, ZeroConn, [ValidConn EXCEPT !.SmtpPort = -1]}

\* Recipient lists: SetTo is given either, SetCC and SetBCC the first.
AddrLists == {<<Addr1, Addr2>>, <<Addr1, Addr1>>}
CopyLists == {<<Addr1, Addr2>>}
\* Field values: SetSubject is given any of them, the other setters of a
\* measured field the over-long one.
FieldInputs == {Ascii500, Ascii501, Wide500}
OverlongInputs == {Ascii501}
PathLists == {<<"p1", "p2">>}

\* The template files the renderer finds: path -> rendered text.
TemplateOK == "t.html"
TemplateMissing == "missing.html"
Rendered == Str("T", 1)
TemplatePaths == {"", TemplateOK, TemplateMissing}

ContentInputs ==
  [Type : {ContentHTML, ContentText, "xml"},
   Content : {EmptyStr, Hello},
   TemplatePath : TemplatePaths]

\* ------------------------------------------------- collaborators (gomail)
\* gomail.NewDialer(host, port, username, password): the transport handle.
NewDialer(c) ==
  [Host |-> c.SmtpHost, Port |-> c.SmtpPort, Username |-> c.SmtpUser,
   Password |-> c.SmtpPassword, SSL |-> (c.SmtpPort = 465)]

\* gm.FormatAddress(address, name): the bare address when there is no name,
\* else the quoted (ASCII) or encoded (non-ASCII) name followed by <address>.
FormatAddress(address, name) ==
  IF name = EmptyStr THEN address
  ELSE IF \A k \in DOMAIN name : Utf8Width(name[k].ch) = 1
       THEN Str("\"", 1) \o name \o Str("\"", 1) \o Str(" ", 1)
            \o Str("<", 1) \o address \o Str(">", 1)
       ELSE Str("=?UTF-8?q?", 1) \o name \o Str("?=", 1) \o Str(" ", 1)
            \o Str("<", 1) \o address \o Str(">", 1)

\* template.ParseFiles(path) and Execute(data): the rendered text of the one
\* template file that exists, an error for every other path.
processTemplate(templatePath, data) ==
  IF templatePath = TemplateOK
  THEN [text |-> Rendered, err |-> ErrNil]
  ELSE [text |-> EmptyStr, err |-> ErrTemplate]

\* ---------------------------------------------------------- pure functions
\* The zero value of the email struct.
ZeroEmail ==
  [dialer |-> << >>, content |-> EmptyStr, contentType |-> "",
   sender |-> EmptyStr, senderName |-> EmptyStr, returnEmail |-> EmptyStr,
   subject |-> EmptyStr, tags |-> EmptyStr, to |-> << >>, cc |-> << >>,
   bcc |-> << >>, imagesToEmbed |-> << >>, attachments |-> << >>]

\* The error string that ConnectionDetails.validate builds (and drops).
ConnErrStr(c) ==
  (IF c.SmtpHost = EmptyStr THEN <<"host cannot be empty">> ELSE << >>)
  \o (IF c.SmtpPort = 0 THEN <<"port cannot be 0">> ELSE << >>)
  \o (IF c.SmtpPassword = EmptyStr THEN <<"SmtpPassword cannot be empty">> ELSE << >>)
  \o (IF c.SmtpUser = EmptyStr THEN <<"SmtpUser cannot be empty">> ELSE << >>)

\* ConnectionDetails.validate: errStr is built, nil is returned.
ConnectionDetails_validate(c) ==
  LET errStr == ConnErrStr(c) IN ErrNil

\* email.validate, the length checks: the first field whose len exceeds 500.
FieldLengthError(em) ==
  IF em.subject # EmptyStr /\ GoLen(em.subject) > MaxFieldLen
       THEN ErrSubjectTooLong
  ELSE IF em.tags # EmptyStr /\ GoLen(em.tags) > MaxFieldLen
       THEN ErrTagsTooLong
  ELSE IF em.sender # EmptyStr /\ GoLen(em.sender) > MaxFieldLen
       THEN ErrSenderTooLong
  ELSE IF em.senderName # EmptyStr /\ GoLen(em.senderName) > MaxFieldLen
       THEN ErrSenderNameTooLong
  ELSE IF em.returnEmail # EmptyStr /\ GoLen(em.returnEmail) > MaxFieldLen
       THEN ErrReturnEmailTooLong
  ELSE ErrNil

\* A validate that lost its content check.
email_validateNoContentCheck(em) == FieldLengthError(em)

\* email.validate
email_validate(em) ==
  IF em.content = EmptyStr THEN ErrContentMissing ELSE FieldLengthError(em)

\* A validate that empties an over-long subject after reporting it.
email_afterValidateRepairing(em) ==
  [em EXCEPT !.subject = IF GoLen(@) > MaxFieldLen THEN EmptyStr ELSE @]

\* The email after a validate call: validate assigns to no field.
email_afterValidate(em) == em

\* email.SetContent of the documented revision: the email after the call, the
\* error returned and whether processTemplate was called.
SetContentNew(em, c) ==
  LET e1 == [em EXCEPT !.contentType = c.Type] IN
  IF c.Type = ContentHTML
  THEN IF c.Content # EmptyStr
       THEN [e |-> [e1 EXCEPT !.content = c.Content], err |-> ErrNil,
             rendered |-> FALSE]
       ELSE IF c.TemplatePath # ""
            THEN LET r == processTemplate(c.TemplatePath, "data") IN
                 IF r.err # ErrNil
                 THEN [e |-> e1, err |-> r.err, rendered |-> TRUE]
                 ELSE [e |-> [e1 EXCEPT !.content = r.text], err |-> ErrNil,
                       rendered |-> TRUE]
            ELSE [e |-> e1, err |-> ErrNoContent, rendered |-> FALSE]
  ELSE IF c.Type = ContentText
       THEN [e |-> [e1 EXCEPT !.content = c.Content], err |-> ErrNil,
             rendered |-> FALSE]
       ELSE [e |-> e1, err |-> ErrNil, rendered |-> FALSE]

\* email.SetContent of the earlier revision.
SetContentOld(em, c) ==
  IF c.Type = ContentHTML
  THEN LET r == processTemplate(c.TemplatePath, "data") IN
       IF r.err # ErrNil
       THEN [e |-> em, err |-> r.err, rendered |-> TRUE]
       ELSE [e |-> [em EXCEPT !.content = r.text, !.contentType = ContentHTML],
             err |-> ErrNil, rendered |-> TRUE]
  ELSE IF c.Type = ContentText
       THEN [e |-> [em EXCEPT !.content = c.Content], err |-> ErrNil,
             rendered |-> FALSE]
       ELSE [e |-> em, err |-> ErrNil, rendered |-> FALSE]

\* gm.SetBody: the body part set by getMessage, << >> when none is set.
MessageBody(r, em) ==
  IF em.contentType = ContentHTML
  THEN <<[kind |-> "text/html", text |-> em.content]>>
  ELSE IF r = "new" /\ em.contentType = ContentText
       THEN <<[kind |-> "text/plain", text |-> em.content]>>
       ELSE << >>

NoHeaders == [h \in {} |-> << >>]

\* The elements of list without repetitions, each at its first position.
RECURSIVE Distinct(_)
Distinct(list) ==
  IF list = << >> THEN << >>
  ELSE LET front == Distinct(SubSeq(list, 1, Len(list) - 1))
           last == list[Len(list)]
       IN  IF \E k \in DOMAIN front : front[k] = last
           THEN front ELSE Append(front, last)

\* An address header that drops repeated addresses.
AddressHeaderDistinct(name, list) ==
  IF Len(list) > 0
  THEN name :> [k \in 1..Len(Distinct(list)) |->
                 FormatAddress(Distinct(list)[k], EmptyStr)]
  ELSE NoHeaders

\* The To, Cc or Bcc header: set only for a non-empty list.
AddressHeader(name, list) ==
  IF Len(list) > 0
  THEN name :> [k \in 1..Len(list) |-> FormatAddress(list[k], EmptyStr)]
  ELSE NoHeaders

\* The files getMessage attaches with gm.Attach: it makes no such call.
MessageAttachments(em) == << >>

\* getMessage: the message descriptor built from the email.
getMessage(r, em) ==
  [body |-> MessageBody(r, em),
   headers |->
     AddressHeader("To", em.to) @@ AddressHeader("Cc", em.cc)
     @@ AddressHeader("Bcc", em.bcc)
     @@ ("Subject" :> <<em.subject>>)
     @@ ("From" :> <<FormatAddress(em.sender, em.senderName)>>)
     @@ ("X-SES-MESSAGE-TAGS" :> <<em.tags>>)
     @@ ("Return-Path" :> <<em.returnEmail>>),
   embedded |-> em.imagesToEmbed,
   attachments |-> MessageAttachments(em)]

\* A loop that starts at 0 in both revisions.
LoopStartZero(r) == 0

\* The retry loop's first index: for i := 1 (new), for i := 0 (old).
LoopStart(r) == IF r = "new" THEN 1 ELSE 0

\* A loop that tests i < retry in both revisions.
LoopCondStrict(r, idx, n) == idx < n

\* The retry loop's condition: i <= retry (new), i < retry (old).
LoopCond(r, idx, n) == IF r = "new" THEN idx <= n ELSE idx < n

\* Contexts: the one the caller passes to email.Send, the nil interface value,
\* and none (exponentialBackOffRetry is not running).
CallerCtx == "caller"
NilCtx == "nil"
NoCtx == "none"

\* No gomailSender has been built.
NoSender == [retry |-> 0, ctx |-> NoCtx]

\* &gomailSender{retry: retry}: the sender email.Send builds.  The ctx field
\* of the earlier revision's struct is not set and keeps its zero value.
gomailSender(n) == [retry |-> n, ctx |-> NilCtx]

\* The context gomailSender.Send passes to exponentialBackOffRetry: its ctx
\* parameter (new), its sender's ctx field (old).
EngineCtx(r, g, ctx) == IF r = "new" THEN ctx ELSE g.ctx

\* The retry count gomailSender.Send passes to exponentialBackOffRetry.
EngineRetry(g) == g.retry

\* ------------------------------------------------------------ durations
\* A time.Duration is an int64 count of nanoseconds.  It is kept as its four
\* 16-bit limbs, least significant first, in two's complement; sequences of
\* more limbs hold wider integers.
LimbBase == 65536
DurationLimbs == 4

\* The integer of `limbs` limbs that is 0.
RECURSIVE ZeroLimbs(_)
ZeroLimbs(limbs) == IF limbs = 0 THEN << >> ELSE <<0>> \o ZeroLimbs(limbs - 1)

\* The integer n, 0 <= n < LimbBase * LimbBase / 2, in `limbs` (>= 2) limbs.
FromInt(n, limbs) == <<n % LimbBase, n \div LimbBase>> \o ZeroLimbs(limbs - 2)

\* a + b from limb k on with the carry c, cut to the limbs of a: the sum
\* wraps as the machine addition does.
RECURSIVE AddFrom(_, _, _, _)
AddFrom(a, b, k, c) ==
  IF k > Len(a) THEN << >>
  ELSE <<(a[k] + b[k] + c) % LimbBase>>
       \o AddFrom(a, b, k + 1, (a[k] + b[k] + c) \div LimbBase)

\* a + b.  (x and y name the values of a and b, so that each is computed
\* once however often the sum refers to it.)
DurAdd(a, b) == CHOOSE r \in {AddFrom(x, y, 1, 0) : x \in {a}, y \in {b}} : TRUE

\* a * 2 ^ k, cut to the limbs of a: the product wraps as the machine
\* multiplication does.
RECURSIVE MulPow2(_, _)
MulPow2(a, k) ==
  IF k = 0 THEN a
  ELSE CHOOSE r \in {MulPow2(DurAdd(x, x), k - 1) : x \in {a}} : TRUE

\* a * n for a small natural number n.
RECURSIVE MulSmall(_, _)
MulSmall(a, n) == IF n = 0 THEN ZeroLimbs(Len(a)) ELSE DurAdd(a, MulSmall(a, n - 1))

\* The sign of a two's complement integer.
DurNegative(a) == a[Len(a)] >= LimbBase \div 2
DurPositive(a) == ~DurNegative(a) /\ a # ZeroLimbs(Len(a))

\* a - b is negative: a < b, for a and b that are not of opposite signs.
RECURSIVE LimbsBelow(_, _, _)
LimbsBelow(a, b, k) ==
  IF k = 0 THEN FALSE
  ELSE IF a[k] # b[k] THEN a[k] < b[k]
  ELSE LimbsBelow(a, b, k - 1)

\* a < b as signed integers.
DurLess(a, b) ==
  IF DurNegative(a) # DurNegative(b) THEN DurNegative(a)
  ELSE LimbsBelow(a, b, Len(a))

\* time.Second: 1000000000 ns = 15258 * 65536 + 51712.
Second(limbs) == <<51712, 15258>> \o ZeroLimbs(limbs - 2)

DurZero == ZeroLimbs(DurationLimbs)

\* A product that keeps every bit (twice the limbs of a time.Duration).
BackoffUnbounded(idx) == MulPow2(MulSmall(Second(2 * DurationLimbs), delay), idx)

\* backoff := delay * time.Duration(math.Pow(2, float64(i))), an int64
\* product.  (math.Pow(2, i) is exact and converts exactly for i <= 62.)
Backoff(idx) == MulPow2(MulSmall(Second(DurationLimbs), delay), idx)

\* sleep := backoff + jitter
Sleep(b, j) == DurAdd(b, FromInt(j, DurationLimbs))

\* rand.Int63n(n) panics for n <= 0 and else draws from [0, n).
Int63nPanics(n) == n <= 0
Int63n(n) == 0 .. (n - 1)

\* The goroutines that call New concurrently.
Callers == 1 .. NumCallers

\* The content and the content type an email holds.
StoredContent(em) == [content |-> em.content, contentType |-> em.contentType]

\* No SetContent call has been traced.
NoCall == [arg |-> << >>, rendered |-> FALSE,
           before |-> StoredContent(ZeroEmail), contentFrom |-> ""]

\* ------------------------------------------------------------------- state
VARIABLES
  rev,           \* the revision of the package that is built: "new" or "old"
  dialer,        \* var dialer *gomail.Dialer (package level): << >> is nil
  conn,          \* the ConnectionDetails of the last New call
  newErr,        \* the error New returned
  e,             \* the email
  setErr,        \* the error the last SetContent returned
  setType,       \* the Content.Type of the last SetContent call
  setCall,       \* the last SetContent call, where calls are traced
  nset,          \* plain setter calls made so far
  pc,            \* "start", "idle", "attempting", "backingOff", "done"
  retry,         \* the retry argument of Send
  sender,        \* the gomailSender built by Send
  engineCtx,     \* the ctx argument of exponentialBackOffRetry
  ctxDone,       \* ctx.Done() is closed
  ctxAtCall,     \* ctx was already cancelled when Send was called
  waitsAtCancel, \* backoff waits completed when ctx was cancelled, -1: never
  succeedsAt,    \* the delivery function succeeds at this invocation, 0: never
  i,             \* the loop index
  calls,         \* invocations of fn (sendEmail) in this Send
  waits,         \* backoff waits ended by the timer in this Send
  backoff,       \* the last backoff, a time.Duration
  jitter,        \* the last jitter, nanoseconds
  lastErr,       \* err of the current iteration, what fn returned
  result,        \* what Send returned
  msg,           \* the message handed to DialAndSend last: << >> is none
  callPc,        \* concurrent callers of New: where each of them is
  callConn,      \* concurrent callers of New: the ConnectionDetails of each
  emails,        \* concurrent callers of New: the dialer of the email returned
  used           \* concurrent callers: the dialer its sendEmail dialled with

emailVars == <<dialer, conn, newErr, e, setErr, setType, nset>>
sendVars == <<retry, sender, engineCtx, ctxDone, ctxAtCall, waitsAtCancel, succeedsAt, i, calls,
              waits, backoff, jitter, lastErr, result, msg>>
callVars == <<callPc, callConn, emails, used>>
vars == <<callVars, rev, pc, dialer, conn, newErr, e, setErr, setType, setCall, nset, retry,
          sender, engineCtx, ctxDone,
          ctxAtCall, waitsAtCancel, succeedsAt, i, calls, waits, backoff,
          jitter, lastErr, result, msg>>

Init ==
  /\ rev \in {"new", "old"}
  /\ callPc = [p \in Callers |-> "ready"]
  /\ callConn = [p \in Callers |-> ZeroConn]
  /\ emails = [p \in Callers |-> << >>]
  /\ used = [p \in Callers |-> << >>]
  /\ dialer = << >>
  /\ conn = ValidConn
  /\ newErr = Pending
  /\ e = ZeroEmail
  /\ setErr = Pending
  /\ setType = ""
  /\ setCall = NoCall
  /\ nset = 0
  /\ pc = "start"
  /\ retry = 0
  /\ sender = NoSender
  /\ engineCtx = NoCtx
  /\ ctxDone = FALSE
  /\ ctxAtCall = FALSE
  /\ waitsAtCancel = -1
  /\ succeedsAt = 0
  /\ i = 0
  /\ calls = 0
  /\ waits = 0
  /\ backoff = DurZero
  /\ jitter = 0
  /\ lastErr = Pending
  /\ result = Pending
  /\ msg = << >>

\* ----------------------------------------------------------- construction
\* New(c): validate, then build the dialer, store it in the package variable
\* and in the email.
New(c) ==
  /\ pc = "start"
  /\ conn' = c
  /\ LET err == ConnectionDetails_validate(c) IN
       IF err # ErrNil
       THEN /\ newErr' = err
            /\ UNCHANGED <<dialer, e, pc>>
       ELSE /\ newErr' = ErrNil
            /\ dialer' = <<NewDialer(c)>>
            /\ e' = [ZeroEmail EXCEPT !.dialer = dialer']
            /\ pc' = "idle"
  /\ UNCHANGED <<callVars, rev, setCall, setErr, setType, nset>>
  /\ UNCHANGED sendVars

\* New(c) called by goroutine p, up to the assignment of the package variable:
\* validate, then dialer = gomail.NewDialer(...).
NewAssigns(p, c) ==
  /\ callPc[p] = "ready"
  /\ callConn' = [callConn EXCEPT ![p] = c]
  /\ IF ConnectionDetails_validate(c) # ErrNil
     THEN /\ callPc' = [callPc EXCEPT ![p] = "failed"]
          /\ UNCHANGED dialer
     ELSE /\ callPc' = [callPc EXCEPT ![p] = "assigned"]
          /\ dialer' = <<NewDialer(c)>>
  /\ UNCHANGED <<emails, used>>
  /\ UNCHANGED <<rev, pc, conn, newErr, e, setErr, setType, setCall, nset>>
  /\ UNCHANGED sendVars

\* return &email{dialer: dialer}, nil: the package variable is read again.
\* (The read races with the other callers' writes; it yields the value of
\* one of the writes, the last one in the interleaving.)
NewReturns(p) ==
  /\ callPc[p] = "assigned"
  /\ callPc' = [callPc EXCEPT ![p] = "returned"]
  /\ emails' = [emails EXCEPT ![p] = dialer]
  /\ UNCHANGED <<callConn, used>>
  /\ UNCHANGED <<rev, pc, dialer, conn, newErr, e, setErr, setType, setCall,
                 nset>>
  /\ UNCHANGED sendVars

\* sendEmail on the email goroutine p got: e.dialer.DialAndSend(gm).
Dials(p) ==
  /\ callPc[p] = "returned"
  /\ callPc' = [callPc EXCEPT ![p] = "dialled"]
  /\ used' = [used EXCEPT ![p] = emails[p]]
  /\ UNCHANGED <<callConn, emails>>
  /\ UNCHANGED <<rev, pc, dialer, conn, newErr, e, setErr, setType, setCall,
                 nset>>
  /\ UNCHANGED sendVars

\* ----------------------------------------------------------------- setters
\* A setter that, besides its own field, resets the content.
AssignClearingContent(field, v) ==
  /\ pc = "idle"
  /\ nset < MaxSetCalls
  /\ e' = [e EXCEPT ![field] = v, !.content = EmptyStr]
  /\ nset' = nset + 1
  /\ UNCHANGED <<callVars, rev, setCall, pc, dialer, conn, newErr, setErr, setType>>
  /\ UNCHANGED sendVars

\* A plain setter: e.<field> = v.
Assign(field, v) ==
  /\ pc = "idle"
  /\ nset < MaxSetCalls
  /\ e' = [e EXCEPT ![field] = v]
  /\ nset' = nset + 1
  /\ UNCHANGED <<callVars, rev, setCall, pc, dialer, conn, newErr, setErr, setType>>
  /\ UNCHANGED sendVars

SetTo == \E v \in AddrLists : Assign("to", v)
SetCC == \E v \in CopyLists : Assign("cc", v)
SetBCC == \E v \in CopyLists : Assign("bcc", v)
SetTags == \E v \in OverlongInputs : Assign("tags", v)
SetSubject == \E v \in FieldInputs : Assign("subject", v)
SetSender == \E v \in OverlongInputs : Assign("sender", v)
SetSenderName == \E v \in OverlongInputs : Assign("senderName", v)
SetReturnEmail == \E v \in OverlongInputs : Assign("returnEmail", v)
SetImagesToEmbed == \E v \in PathLists : Assign("imagesToEmbed", v)
\* The earlier revision has no attachments.
SetAttachements == rev = "new" /\ \E v \in PathLists : Assign("attachments", v)

\* email.SetContent(content)
SetContentResult(r, em, c) ==
  IF r = "new" THEN SetContentNew(em, c) ELSE SetContentOld(em, c)

SetContentWith(c) ==
  /\ pc = "idle"
  /\ e' = SetContentResult(rev, e, c).e
  /\ setErr' = SetContentResult(rev, e, c).err
  /\ setType' = c.Type
  /\ UNCHANGED <<callVars, rev, pc, dialer, conn, newErr, nset>>
  /\ UNCHANGED sendVars

SetContent == \E c \in ContentInputs : SetContentWith(c) /\ UNCHANGED setCall

\* SetContent assigns e.content in the branches that return nil for a
\* content of type HTML or text.
StoresContent(r, em, c) ==
  /\ SetContentResult(r, em, c).err = ErrNil
  /\ c.Type \in {ContentHTML, ContentText}

\* SetContent, with its argument, its use of processTemplate, the content and
\* type held before the call and the type of the call that assigned the
\* content held after it recorded.
SetContentTraced ==
  \E c \in ContentInputs :
    /\ SetContentWith(c)
    /\ setCall' = [arg |-> c,
                   rendered |-> SetContentResult(rev, e, c).rendered,
                   before |-> StoredContent(e),
                   contentFrom |-> IF StoresContent(rev, e, c)
                                   THEN c.Type
                                   ELSE setCall.contentFrom]

\* -------------------------------------------------------------------- Send
\* A loop head that looks at ctx.Done() before it calls fn.
LoopHeadChecksCtx(idx, n) ==
  IF ctxDone'
  THEN pc' = "done" /\ result' = ErrTimeout
  ELSE IF LoopCond(rev, idx, n)
       THEN pc' = "attempting" /\ result' = Pending
       ELSE pc' = "done" /\ result' = ErrExhausted

\* A loop head that returns nil when the loop is left.
LoopHeadReturnsNil(idx, n) ==
  IF LoopCond(rev, idx, n)
  THEN pc' = "attempting" /\ result' = Pending
  ELSE pc' = "done" /\ result' = ErrNil

\* The head of the retry loop: the condition holds and fn is called next,
\* or the loop is left and "retries are exhausted" is returned.
LoopHead(idx, n) ==
  IF LoopCond(rev, idx, n)
  THEN pc' = "attempting" /\ result' = Pending
  ELSE pc' = "done" /\ result' = ErrExhausted

\* email.Send(ctx, retry) -> sendBy -> gomailSender.Send: validate, then
\* enter exponentialBackOffRetry.
\* n is the retry argument, cancelled tells whether ctx is already cancelled,
\* s is the invocation at which the delivery function succeeds (0: never).
SendWith(n, cancelled, s) ==
  /\ pc = "idle"
  /\ s = 0 \/ (s <= n /\ email_validate(e) = ErrNil)
  /\ retry' = n
  /\ sender' = gomailSender(n)
  /\ ctxDone' = cancelled
  /\ ctxAtCall' = cancelled
  /\ waitsAtCancel' = IF cancelled THEN 0 ELSE -1
  /\ succeedsAt' = s
  /\ calls' = 0
  /\ waits' = 0
  /\ backoff' = DurZero
  /\ jitter' = 0
  /\ lastErr' = Pending
  /\ msg' = << >>
  /\ IF email_validate(e) # ErrNil
     THEN /\ result' = email_validate(e)
          /\ pc' = "done"
          /\ i' = 0
          /\ engineCtx' = NoCtx
     ELSE /\ engineCtx' = EngineCtx(rev, sender', CallerCtx)
          /\ i' = LoopStart(rev)
          /\ LoopHead(LoopStart(rev), EngineRetry(sender'))
  /\ e' = email_afterValidate(e)
  /\ UNCHANGED <<callVars, rev, setCall, dialer, conn, newErr, setErr, setType, nset>>

Send ==
  \E n \in -1 .. MaxRetry, cancelled \in BOOLEAN, s \in 0 .. MaxRetry :
    SendWith(n, cancelled, s)

\* ctx.Done() of the context exponentialBackOffRetry was given is closed.
EngineCtxDone == engineCtx = CallerCtx /\ ctxDone

\* backoff, jitter and sleep are computed and the select is entered.
\* rand.Int63n panics for a loop index of 0; the select calls ctx.Done(),
\* which panics for a nil context.
ComputeSleep(kind) ==
  /\ lastErr' = kind
  /\ backoff' = Backoff(i)
  /\ IF Int63nPanics(i)
     THEN /\ result' = Panic
          /\ pc' = "done"
          /\ UNCHANGED jitter
     ELSE /\ jitter' \in Int63n(i)
          /\ IF engineCtx = NilCtx
             THEN result' = Panic /\ pc' = "done"
             ELSE pc' = "backingOff" /\ UNCHANGED result

\* A loop that gives up on an authentication failure and returns it.
OnFailureAuthFinal(kind) ==
  IF kind = "auth failure"
  THEN /\ lastErr' = kind
       /\ result' = kind
       /\ pc' = "done"
       /\ UNCHANGED <<backoff, jitter>>
  ELSE ComputeSleep(kind)

\* if err == nil { return nil } else { fmt.Println("err") }: whatever the
\* error is, the loop body goes on.
OnFailure(kind) == ComputeSleep(kind)

\* err := fn(e): sendEmail builds the message and dials.
Attempt ==
  /\ pc = "attempting"
  /\ calls' = calls + 1
  /\ msg' = <<getMessage(rev, e)>>
  /\ IF calls + 1 = succeedsAt
     THEN /\ lastErr' = ErrNil
          /\ result' = ErrNil
          /\ pc' = "done"
          /\ UNCHANGED <<backoff, jitter>>
     ELSE \E kind \in TransportErrors : OnFailure(kind)
  /\ UNCHANGED <<callVars, rev, setCall, retry, sender, engineCtx, ctxDone, ctxAtCall,
                 waitsAtCancel, succeedsAt, i, waits>>
  /\ UNCHANGED emailVars

\* A select whose timer case can be taken although ctx.Done() is closed.
TimerWinsAlways == TRUE

\* The select takes the timer case if the timer fires before ctx.Done() is
\* closed.  A timer of a sleep that is not positive has fired when the select
\* is entered, and the select then takes either case that is ready.
TimerWins == ~EngineCtxDone \/ ~DurPositive(Sleep(backoff, jitter))

\* A loop statement that adds 2 to the index.
NextIndexSkips(idx) == idx + 2

\* A loop statement that leaves the index as it is.
NextIndexStuck(idx) == idx

\* i++
NextIndex(idx) == idx + 1

\* case <-time.After(sleep): the timer fires first; the iteration ends (its
\* err, backoff and jitter go out of scope), i++ and the loop head.
TimerFires ==
  /\ pc = "backingOff"
  /\ TimerWins
  /\ UNCHANGED <<callVars, rev, setCall, retry, sender, engineCtx, ctxDone, ctxAtCall,
                 waitsAtCancel, succeedsAt, calls, msg>>
  /\ UNCHANGED emailVars
  /\ waits' = waits + 1
  /\ i' = NextIndex(i)
  /\ backoff' = DurZero
  /\ jitter' = 0
  /\ lastErr' = Pending
  /\ LoopHead(i', EngineRetry(sender))

\* case <-ctx.Done(): return "send email timeout" (the locals of the
\* iteration are gone).
CtxDone ==
  /\ pc = "backingOff"
  /\ EngineCtxDone
  /\ result' = ErrTimeout
  /\ pc' = "done"
  /\ backoff' = DurZero
  /\ jitter' = 0
  /\ lastErr' = Pending
  /\ UNCHANGED <<callVars, rev, setCall, retry, sender, engineCtx, ctxDone, ctxAtCall,
                 waitsAtCancel, succeedsAt, i, calls, waits, msg>>
  /\ UNCHANGED emailVars

\* The caller's context is cancelled (or its deadline passes) during Send.
Cancel ==
  /\ pc \in {"attempting", "backingOff"}
  /\ ~ctxDone
  /\ ctxDone' = TRUE
  /\ waitsAtCancel' = waits
  /\ UNCHANGED <<callVars, rev, setCall, pc, retry, sender, engineCtx, ctxAtCall,
                 succeedsAt, i, calls, waits, backoff, jitter, lastErr, result, msg>>
  /\ UNCHANGED emailVars

Next ==
  \/ \E c \in ConnInputs : New(c)
  \/ SetTo
  \/ SetCC
  \/ SetBCC
  \/ SetTags
  \/ SetSubject
  \/ SetSender
  \/ SetSenderName
  \/ SetReturnEmail
  \/ SetImagesToEmbed
  \/ SetAttachements
  \/ SetContent
  \/ Send
  \/ Attempt
  \/ TimerFires
  \/ CtxDone
  \/ Cancel

Spec == Init /\ [][Next]_vars

\* Send(ctx, LongRetry) with a live context and a delivery function that
\* fails on every invocation.
SendLong == SendWith(LongRetry, FALSE, 0)

\* SetContent(Content{Type: ContentText, Content: "hi"})
SetPlainContent ==
  /\ SetContentWith([Type |-> ContentText, Content |-> Hello, TemplatePath |-> ""])
  /\ UNCHANGED setCall

\* The retry loop run for LongRetry iterations.
NextLong ==
  \/ New(ValidConn)
  \/ SetPlainContent
  \/ SendLong
  \/ Attempt
  \/ TimerFires
  \/ CtxDone
  \/ Cancel

SpecLong == Init /\ [][NextLong]_vars

\* One email, without content or with a text content, and every Send.
NextEngine ==
  \/ New(ValidConn)
  \/ SetPlainContent
  \/ Send
  \/ Attempt
  \/ TimerFires
  \/ CtxDone
  \/ Cancel

\* Every invocation of fn returns, every timer fires unless the select takes
\* the other case, and a select with a closed ctx.Done() returns.
FairEngine ==
  /\ Init
  /\ [][NextEngine]_vars
  /\ WF_vars(Attempt)
  /\ WF_vars(TimerFires)
  /\ WF_vars(CtxDone)

\* New called by NumCallers goroutines at once, each then sending its email.
NextCallers ==
  \/ \E p \in Callers, c \in ConnInputs : NewAssigns(p, c)
  \/ \E p \in Callers : NewReturns(p)
  \/ \E p \in Callers : Dials(p)

SpecCallers == Init /\ [][NextCallers]_vars

\* Construction and content only, every SetContent call traced.
NextContent ==
  \/ \E c \in ConnInputs : New(c)
  \/ SetContentTraced

SpecContent == Init /\ [][NextContent]_vars

TypeOK ==
  /\ rev \in {"new", "old"}
  /\ pc \in {"start", "idle", "attempting", "backingOff", "done"}
  /\ retry \in -1 .. MaxRetry
  /\ calls \in 0 .. MaxRetry
  /\ waits \in 0 .. MaxRetry
  /\ nset \in 0 .. MaxSetCalls

\* ------------------------------------------------------------- properties
Returned == pc = "done"
Validated == email_validate(e) = ErrNil
AlwaysFails == succeedsAt = 0

\* The context was not cancelled before invocation k of fn started.
NotCancelledBefore(k) == ~ctxDone \/ waitsAtCancel >= k - 1

\* C1: when Send(ctx, N), N >= 1, has returned for an email that passes
\* validation, with a delivery function that fails on every invocation and a
\* context that was never cancelled, fn was invoked exactly N times and Send
\* returned "retries are exhausted".
C1_RetryCount ==
  (Returned /\ retry >= 1 /\ Validated /\ AlwaysFails /\ ~ctxDone)
    => (calls = retry /\ result = ErrExhausted)

\* C1, for the loop of the documented revision only (for i := 1; i <= retry).
C1_RetryCountOneIndexed ==
  (rev = "new" /\ Returned /\ retry >= 1 /\ Validated /\ AlwaysFails /\ ~ctxDone)
    => (calls = retry /\ result = ErrExhausted)

\* C2 as stated: a delivery function that fails k times and succeeds at
\* invocation k+1 <= maxRetries makes Send return nil after exactly k+1
\* invocations, whatever happens to the context.
C2_ShortCircuitAnyContext ==
  (rev = "new" /\ Returned /\ Validated /\ succeedsAt >= 1 /\ retry >= succeedsAt)
    => (result = ErrNil /\ calls = succeedsAt)

\* C2, amended: if moreover the context is not cancelled before invocation
\* k+1 starts, Send returns nil after exactly k+1 invocations and k backoff
\* waits; a nil result is final, with no wait after the successful invocation.
C2_ShortCircuit ==
  /\ (rev = "new" /\ Returned /\ Validated /\ succeedsAt >= 1
      /\ retry >= succeedsAt /\ NotCancelledBefore(succeedsAt))
       => (result = ErrNil /\ calls = succeedsAt /\ waits = succeedsAt - 1)
  /\ (rev = "new" /\ result = ErrNil)
       => (Returned /\ calls = succeedsAt /\ waits = calls - 1)

\* C2 witness: two failures, then success at the third of three invocations.
C2_Witness ==
  /\ rev = "new" /\ Returned /\ retry = 3 /\ succeedsAt = 3
  /\ result = ErrNil /\ calls = 3 /\ waits = 2

\* C3: with a delivery function that always fails and a context cancelled
\* before a backoff wait elapsed, Send returned "send email timeout" and fn was
\* invoked at most once more than the number of backoff waits completed before
\* the cancellation: exactly once if none had completed.
C3_Cancellation ==
  (rev = "new" /\ Returned /\ Validated /\ retry >= 1 /\ AlwaysFails /\ ctxDone)
    => /\ result = ErrTimeout
       /\ calls <= waitsAtCancel + 1
       /\ (waitsAtCancel = 0 => calls = 1)

\* C3 witness: cancelled during the second wait, timeout after two invocations.
C3_Witness ==
  /\ rev = "new" /\ Returned /\ AlwaysFails /\ ctxDone /\ ~ctxAtCall
  /\ waitsAtCancel = 1 /\ calls = 2 /\ result = ErrTimeout

\* C4: Send on an email with empty content returns "content missing" with no
\* call of the transport; an email that fails validation is never attempted,
\* never waited for and never retried.
C4_EmptyContent ==
  /\ (Returned /\ e.content = EmptyStr)
       => (result = ErrContentMissing /\ calls = 0 /\ waits = 0 /\ msg = << >>)
  /\ (pc \in {"attempting", "backingOff"}) => Validated
  /\ (Returned /\ ~Validated)
       => (result = email_validate(e) /\ calls = 0 /\ waits = 0 /\ msg = << >>)

\* C4 witness: empty content, a live context and three retries allowed.
C4_Witness ==
  /\ Returned /\ e.content = EmptyStr /\ retry = 3 /\ ~ctxAtCall
  /\ result = ErrContentMissing /\ calls = 0

\* The ConnectionDetails that C5 calls invalid.
InvalidConnection(c) ==
  \/ c.SmtpHost = EmptyStr
  \/ c.SmtpUser = EmptyStr
  \/ c.SmtpPassword = EmptyStr
  \/ c.SmtpPort <= 0

\* C5: New on ConnectionDetails with an empty host, user or password or a
\* port <= 0 returns an error and no email (no dialer is built).
C5_InvalidConnection ==
  (newErr # Pending /\ InvalidConnection(conn))
    => (newErr # ErrNil /\ e.dialer = << >> /\ dialer = << >> /\ pc = "start")

\* The five fields email.validate measures.
LengthFields == {"subject", "tags", "sender", "senderName", "returnEmail"}

\* C6: Send on an email one of whose five fields is longer than 500
\* characters returns a field-too-long error, and fields of at most 500
\* characters do not make validation fail.
C6_FieldTooLong ==
  Returned =>
    /\ (\E f \in LengthFields : CharCount(e[f]) > MaxFieldLen)
         => result \in FieldTooLongErrors
    /\ (\A f \in LengthFields : CharCount(e[f]) <= MaxFieldLen)
         => result \notin FieldTooLongErrors

\* C7: Send with maxRetries = 0 never invokes fn and never waits; it returns
\* "retries are exhausted" for an email that passes validation, cancelled
\* context or not, and the validation error for one that does not.
C7_ZeroRetries ==
  (Returned /\ retry = 0)
    => /\ calls = 0
       /\ waits = 0
       /\ msg = << >>
       /\ result = IF Validated THEN ErrExhausted ELSE email_validate(e)

\* C7 witness: a valid email, maxRetries = 0 and an already cancelled context.
C7_Witness ==
  Returned /\ retry = 0 /\ Validated /\ ctxAtCall /\ result = ErrExhausted

\* C8: the message built for a delivery attempt attaches exactly the paths
\* given to SetAttachements and embeds exactly those given to SetImagesToEmbed.
C8_AttachmentsAndEmbeds ==
  msg # << >>
    => (msg[1].attachments = e.attachments /\ msg[1].embedded = e.imagesToEmbed)

\* The body kind of a content type.
BodyKind(type) == IF type = ContentHTML THEN "text/html" ELSE "text/plain"

\* C9: after a successful SetContent, the message handed to the transport has
\* a body, of kind text/html for type HTML and text/plain for type Text, whose
\* text is the email's content.
C9_BodyMatchesType ==
  (msg # << >> /\ setErr = ErrNil)
    => /\ msg[1].body # << >>
       /\ msg[1].body[1].text = e.content
       /\ setType \in {ContentHTML, ContentText}
            => msg[1].body[1].kind = BodyKind(setType)

\* C10: cancellation is observed only in the backoff wait.  "send email
\* timeout" is returned only after a failed invocation; with maxRetries >= 1
\* and a context already cancelled at the call, fn is still invoked exactly
\* once, and Send returns nil if that invocation succeeds, timeout if not.
C10_CancelOnlyInBackoff ==
  /\ result = ErrTimeout => (ctxDone /\ calls >= 1 /\ calls # succeedsAt)
  /\ (rev = "new" /\ pc = "attempting") => calls = waits
  /\ (rev = "new" /\ Returned /\ Validated /\ retry >= 1 /\ ctxAtCall)
       => /\ calls = 1
          /\ msg # << >>
          /\ result = IF succeedsAt = 1 THEN ErrNil ELSE ErrTimeout

\* C10 witness: the context is cancelled at the call and the one invocation
\* succeeds.
C10_Witness ==
  /\ rev = "new" /\ Returned /\ retry >= 1 /\ ctxAtCall
  /\ calls = 1 /\ result = ErrNil


\* The errors exponentialBackOffRetry itself returns.
EngineErrors == {ErrTimeout, ErrExhausted}

\* C11: Send returns nil if and only if an invocation of the delivery
\* function returned success, and that invocation is the last one made.
\* Every other outcome is exactly one error: a validation error, after zero
\* invocations, "send email timeout" or "retries are exhausted".  Send never
\* returns nil after zero invocations, and has no result before it returns.
C11_ResultKinds ==
  rev = "new" =>
    /\ Returned
         => /\ result \in {ErrNil} \cup ValidationErrors \cup EngineErrors
            /\ result = ErrNil <=> (calls >= 1 /\ calls = succeedsAt)
            /\ result \in ValidationErrors
                 <=> (~Validated /\ result = email_validate(e))
            /\ result \in ValidationErrors => (calls = 0 /\ msg = << >>)
            /\ result \in EngineErrors => Validated
    /\ ~Returned => result = Pending

\* C11 witness: nil after a failed and then a successful invocation.
C11_Witness ==
  /\ rev = "new" /\ Returned /\ result = ErrNil /\ calls = 2 /\ succeedsAt = 2
  /\ msg # << >>


\* k consecutive validate calls on em: the errors they return, in order, and
\* the email after the last of them.
RECURSIVE validateRun(_, _)
validateRun(em, k) ==
  IF k = 0
  THEN [errs |-> << >>, e |-> em]
  ELSE LET r == validateRun(em, k - 1) IN
       [errs |-> Append(r.errs, email_validate(r.e)),
        e |-> email_afterValidate(r.e)]

C13_HtmlContent ==
  (setCall # NoCall /\ setCall.arg.Type = ContentHTML) =>
    LET c == setCall.arg
        r == processTemplate(c.TemplatePath, "data")
    IN  IF c.Content # EmptyStr
        THEN setErr = ErrNil /\ e.content = c.Content /\ ~setCall.rendered
        ELSE IF c.TemplatePath # ""
             THEN /\ setCall.rendered
                  /\ IF r.err = ErrNil
                     THEN setErr = ErrNil /\ e.content = r.text
                     ELSE setErr = r.err
             ELSE setErr = ErrNoContent /\ ~setCall.rendered

\* C13, for the SetContent of the documented revision only.
C13_HtmlContentDocumented == rev = "new" => C13_HtmlContent


\* The address headers and the recipient lists they are built from.
AddressFields == {<<"To", "to">>, <<"Cc", "cc">>, <<"Bcc", "bcc">>}

\* C14 as stated: in the built message each of To, Cc and Bcc is present if
\* and only if its recipient list is non-empty, and its values are the
\* distinct addresses of that list in insertion order.
C14_DistinctAddresses ==
  msg # << >> =>
    \A f \in AddressFields :
      /\ f[1] \in DOMAIN msg[1].headers <=> e[f[2]] # << >>
      /\ f[1] \in DOMAIN msg[1].headers
           => msg[1].headers[f[1]] = Distinct(e[f[2]])

\* C14, amended: each of To, Cc and Bcc is present if and only if its
\* recipient list is non-empty, and then it has one value per element of the
\* list, in the list's order, repeated addresses included: the address itself,
\* as it is formatted with an empty display name.
C14_AddressHeaders ==
  msg # << >> =>
    \A f \in AddressFields :
      /\ f[1] \in DOMAIN msg[1].headers <=> e[f[2]] # << >>
      /\ f[1] \in DOMAIN msg[1].headers
           => /\ Len(msg[1].headers[f[1]]) = Len(e[f[2]])
              /\ \A k \in 1 .. Len(e[f[2]]) :
                   msg[1].headers[f[1]][k] = e[f[2]][k]

\* C14 witness: a To list that names one address twice, and no Cc or Bcc.
C14_Witness ==
  /\ msg # << >> /\ e.to = <<Addr1, Addr1>> /\ e.cc = << >>
  /\ msg[1].headers["To"] = <<Addr1, Addr1>>
  /\ "Cc" \notin DOMAIN msg[1].headers


\* exponentialBackOffRetry has been entered in this Send.
EngineEntered == pc \in {"attempting", "backingOff"} \/ (Returned /\ Validated)

\* C15: the context and the retry count that govern the retry engine are
\* exactly the ones the caller passed to email.Send: the cancellation signal
\* raced against the backoff timer is the caller's context (and so a backoff
\* wait entered with that context cancelled can end with "send email
\* timeout"), and the attempt limit is the caller's retry argument.
C15_CallerContextAndLimit ==
  EngineEntered =>
    /\ engineCtx = CallerCtx
    /\ EngineRetry(sender) = retry
    /\ (pc = "backingOff" /\ ctxDone) => ENABLED CtxDone

\* C15, for the gomailSender.Send of the documented revision only.
C15_CallerContextAndLimitDocumented == rev = "new" => C15_CallerContextAndLimit


\* The larger of n and 0.
Max0(n) == IF n > 0 THEN n ELSE 0

\* C16: every failed invocation is handled identically whatever the error
\* value.  The engine backs off after each of them, with a backoff and a
\* jitter that depend on the loop index only; the error is never what Send
\* returns; the terminal result is decided by the counts of invocations and
\* waits alone; and no error ends the loop before the limit: "retries are
\* exhausted" is returned only after as many invocations as the limit allows.
C16_ErrorKindIgnored ==
  rev = "new" =>
    /\ pc = "backingOff"
         => /\ lastErr \in TransportErrors
            /\ backoff = Backoff(i)
            /\ jitter \in Int63n(i)
    /\ (lastErr \in TransportErrors /\ ~Returned) => pc = "backingOff"
    /\ (pc = "backingOff" /\ ~ctxDone) => TimerWins
    /\ Returned => result \notin TransportErrors
    /\ (Returned /\ Validated)
         => result = IF calls >= 1 /\ calls = succeedsAt THEN ErrNil
                     ELSE IF calls > waits THEN ErrTimeout
                     ELSE ErrExhausted
    /\ (Returned /\ result = ErrExhausted) => calls = Max0(retry)

\* C16 witness: the second invocation failed with an authentication failure
\* and the engine is in the second backoff wait, which the timer can end.
C16_Witness ==
  /\ rev = "new" /\ pc = "backingOff" /\ lastErr = "auth failure"
  /\ calls = 2 /\ waits = 1 /\ i = 2 /\ retry = 3 /\ ~ctxDone


\* C17: within one Send the invocations of the delivery function are strictly
\* sequential.  Invocation k runs with loop index k after k - 1 invocations
\* and k - 1 completed waits; a wait follows a failed invocation only; an
\* invocation starts either at the call of Send or when the timer of the wait
\* after a failed invocation has fired, which adds exactly one to the index
\* and to the waits; and a step that counts an invocation counts exactly one
\* and ends it.
C17_Sequential ==
  /\ [](rev = "new" =>
          /\ pc = "attempting"
               => /\ calls = waits
                  /\ i = calls + 1
                  /\ lastErr = Pending
          /\ pc = "backingOff"
               => /\ calls = waits + 1
                  /\ i = calls
                  /\ lastErr \in TransportErrors)
  /\ [][rev = "new" =>
          /\ calls' # calls
               => \/ pc = "idle" /\ calls' = 0
                  \/ pc = "attempting" /\ pc' # "attempting" /\ calls' = calls + 1
          /\ (pc' = "attempting" /\ pc # "attempting")
               => \/ pc = "idle" /\ calls' = 0 /\ i' = 1
                  \/ /\ pc = "backingOff"
                     /\ lastErr \in TransportErrors
                     /\ waits' = waits + 1
                     /\ i' = i + 1
                     /\ calls' = calls]_vars

\* C17 witness: the third invocation is about to run, after two failed
\* invocations and two completed waits.
C17_Witness ==
  /\ rev = "new" /\ pc = "attempting" /\ calls = 2 /\ waits = 2 /\ i = 3


\* a, with as many zero limbs added as b has more: the same natural number.
Widen(a, b) == a \o ZeroLimbs(Len(b) - Len(a))

\* The largest loop index whose backoff is computed without wrapping.
LastExactIndex ==
  CHOOSE k \in 0 .. 62 :
    /\ \A j \in 0 .. k : Widen(Backoff(j), BackoffUnbounded(j)) = BackoffUnbounded(j)
                         /\ DurPositive(Backoff(j))
    /\ ~(Widen(Backoff(k + 1), BackoffUnbounded(k + 1)) = BackoffUnbounded(k + 1)
         /\ DurPositive(Backoff(k + 1)))

\* C18: the backoff computed after the failed attempt with loop index i is
\* 2 seconds * 2^i, as an int64 count of nanoseconds that did not wrap: it is
\* positive, and larger than the backoff of the index before.
C18_Backoff ==
  pc = "backingOff" =>
    /\ Widen(backoff, BackoffUnbounded(i)) = BackoffUnbounded(i)
    /\ DurPositive(backoff)
    /\ i > LoopStart(rev) => DurLess(Backoff(i - 1), backoff)

\* C18, for the loop indices up to the last one whose product fits an int64.
C18_BackoffBeforeWrap == i <= LastExactIndex => C18_Backoff


\* C19: in both loops, after every failed invocation the jitter draw is well
\* defined and the engine reaches the backoff wait: nothing panics, a failed
\* invocation whose wait has not ended leaves the engine waiting (or returned
\* with a timeout), and the jitter lies in [0, i) for the loop index i, so it
\* is 0 at the first backoff.
C19_Jitter ==
  /\ result # Panic
  /\ (lastErr \in TransportErrors /\ calls > waits)
       => (pc = "backingOff" \/ result = ErrTimeout)
  /\ pc = "backingOff"
       => /\ jitter >= 0 /\ jitter < i
          /\ waits = 0 => jitter = 0

\* C19, for the loop that starts at 1 only.
C19_JitterOneIndexed == rev = "new" => C19_Jitter


\* C20: every Send terminates.  If each invocation of the delivery function
\* returns and every backoff timer fires, then for every retry argument, 0
\* and negative ones included, and whenever the context is cancelled, a Send
\* that entered the retry loop returns; what it returns is one of a
\* validation error, nil, "send email timeout" and "retries are exhausted",
\* after at most max(retry, 0) invocations; and nothing happens after it has
\* returned.
C20_Terminates ==
  /\ [](rev = "new" /\ pc \in {"attempting", "backingOff"} => <>Returned)
  /\ []((rev = "new" /\ Returned)
          => /\ result \in {ErrNil} \cup ValidationErrors \cup EngineErrors
             /\ calls <= Max0(retry))
  /\ [][~Returned]_vars

\* C20 witness: Send with a negative retry count has returned "retries are
\* exhausted" without an invocation.
C20_Witness ==
  /\ rev = "new" /\ Returned /\ retry = -1 /\ Validated
  /\ result = ErrExhausted /\ calls = 0


\* C21: once the invocation that uses up the retry count has failed, the
\* engine is exhausted: it does not enter another backoff wait, Send returns
\* "retries are exhausted" after retry invocations and retry - 1 waits, and a
\* cancellation after the last failed invocation does not make it a timeout.
C21_ExhaustionWithoutWait ==
  (rev = "new" /\ retry >= 1 /\ calls = retry /\ calls # succeedsAt)
    => /\ pc # "backingOff"
       /\ Returned => (result = ErrExhausted /\ waits = retry - 1)

\* What the loop does instead: the last failed invocation is followed by a
\* backoff wait like every other, and exhaustion is found when that wait has
\* ended by its timer.
C21_ExhaustionAfterWait ==
  (rev = "new" /\ retry >= 1 /\ calls = retry /\ calls # succeedsAt)
    => /\ pc \in {"backingOff", "done"}
       /\ Returned
            => \/ result = ErrExhausted /\ waits = retry
               \/ result = ErrTimeout /\ waits = retry - 1 /\ ctxDone


\* C22: for every interleaving of New calls with different
\* ConnectionDetails, the email each call returns is backed by the dialer
\* built from the ConnectionDetails of that call, and that dialer is the one
\* its delivery attempts dial with.
C22_OwnHandle ==
  \A p \in Callers :
    /\ callPc[p] \in {"returned", "dialled"}
         => emails[p] = <<NewDialer(callConn[p])>>
    /\ callPc[p] = "dialled" => used[p] = <<NewDialer(callConn[p])>>

\* What holds in every interleaving: an email is backed by the dialer built
\* by some New call that had assigned the package variable by then, and its
\* delivery attempts dial with the email's own dialer.
C22_SomeCallersHandle ==
  \A p \in Callers :
    /\ callPc[p] \in {"returned", "dialled"}
         => \E q \in Callers :
              /\ callPc[q] \in {"assigned", "returned", "dialled"}
              /\ emails[p] = <<NewDialer(callConn[q])>>
    /\ callPc[p] = "dialled" => used[p] = emails[p]


\* C23: a SetContent call that returns an error leaves the content and the
\* content type of the email as they were before the call; so after any
\* sequence of SetContent calls the content type held is the type of the call
\* that assigned the content held, and the body getMessage builds from the
\* email has the kind of that type.
C23_ContentTypeOfContent ==
  rev = "new" =>
    /\ (setCall # NoCall /\ setErr # ErrNil) => StoredContent(e) = setCall.before
    /\ setCall.contentFrom # ""
         => /\ e.contentType = setCall.contentFrom
            /\ MessageBody(rev, e)
                 = <<[kind |-> BodyKind(setCall.contentFrom), text |-> e.content]>>

\* What SetContent does instead: it assigns the content type before it looks
\* at the content, so after every call the type held is the type of that
\* call, whatever the call returned; a failed call leaves only the content as
\* it was.
C23_TypeOfLastCall ==
  (rev = "new" /\ setCall # NoCall) =>
    /\ e.contentType = setCall.arg.Type
    /\ setErr # ErrNil => e.content = setCall.before.content


====
